---- MODULE Spec2Model ----
(***************************************************************************)
(* Layered workspace configuration: the Configuration aggregate, the       *)
(* folder / workspace / standalone model parsers and the change events of  *)
(* src/vs/workbench/services/configuration/common/configurationModels.ts.  *)
(*                                                                         *)
(* A key is a string, modelled as a sequence of one-character strings      *)
(* ("a.b" is <<"a", ".", "b">>), so that splitting a key on its dots is a  *)
(* computation.  A value tree (`contents`) is modelled by its leaves: a    *)
(* function from leaf paths (sequences of segments) to scalar values.  Two *)
(* trees are deeply equal exactly when these functions are equal.          *)
(***************************************************************************)
EXTENDS Integers, Sequences, FiniteSets, TLC

VARIABLES
    defaults,                       \* Configuration._defaults
    user,                           \* Configuration._user
    workspaceConfiguration,         \* Configuration._workspaceConfiguration
    folders,                        \* Configuration.folders (resource -> model)
    memoryConfiguration,            \* Configuration._memoryConfiguration
    memoryConfigurationByResource,  \* Configuration._memoryConfigurationByResource
    workspace,                      \* Configuration._workspace: its folders, in order
    call,                           \* the last operation called on the aggregate and what it returned
    compared,                       \* the last compare(other) call: other, and the list returned
    allKeysEvent,                   \* the AllKeysConfigurationChangeEvent built over the aggregate
    affects,                        \* the last affectsConfiguration query on that event and its answer
    configurationProperties,        \* the schema registry: key -> { scope, isExecutable }
    configurationScope,             \* FolderSettingsModelParser.configurationScope
    parserRaw,                      \* FolderSettingsModelParser._raw
    folderSettingsModel,            \* FolderSettingsModelParser._workspaceSettingsModel
    parserCall,                     \* the last operation on the parser or the registry
    modelBefore,                    \* the parser's model when its last parse or reprocess began
    workspaceParser,                \* WorkspaceConfigurationModelParser: _folders and the last raw layer
    standalone,                     \* the last StandaloneConfigurationModelParser.parseRaw call and its result
    workspaceAffects                \* the last affectsConfiguration query on a WorkspaceConfigurationChangeEvent

cfgVars == <<defaults, user, workspaceConfiguration, folders, memoryConfiguration,
             memoryConfigurationByResource, workspace>>

eventVars == <<allKeysEvent, affects>>

parserVars == <<configurationProperties, configurationScope, parserRaw, folderSettingsModel,
                parserCall, modelBefore>>

workspaceVars == <<workspaceParser, standalone, workspaceAffects>>

vars == <<defaults, user, workspaceConfiguration, folders, memoryConfiguration,
          memoryConfigurationByResource, workspace, call, compared, allKeysEvent, affects,
          configurationProperties, configurationScope, parserRaw, folderSettingsModel,
          parserCall, modelBefore, workspaceParser, standalone, workspaceAffects>>

----------------------------------------------------------------------------
(* Keys, segments, paths *)

KA == <<"a">>
KAB == <<"a", ".", "b">>
KB == <<"b">>

\* The keys of the bounded universe, in the order raw objects list them.
KeyOrder == <<KA, KAB, KB>>

Keys == {KeyOrder[i] : i \in 1..Len(KeyOrder)}

\* The scalar values a key is given are 1..MaxValue.
MaxValue == 2

Values == 1..MaxValue

\* key.split('.')
Split(s) ==
    LET RECURSIVE go(_, _, _)
        go(i, cur, acc) ==
            IF i > Len(s) THEN Append(acc, cur)
            ELSE IF s[i] = "." THEN go(i + 1, <<>>, Append(acc, cur))
            ELSE go(i + 1, Append(cur, s[i]), acc)
    IN go(1, <<>>, <<>>)

IsPrefix(p, q) == Len(p) <= Len(q) /\ SubSeq(q, 1, Len(p)) = p

Conflict(p, q) == IsPrefix(p, q) \/ IsPrefix(q, p)

Range(s) == {s[i] : i \in 1..Len(s)}

\* s followed by the elements of t that s does not hold yet.
AddKeys(s, t) ==
    LET RECURSIVE go(_, _)
        go(i, acc) ==
            IF i > Len(t) THEN acc
            ELSE go(i + 1, IF t[i] \in Range(acc) THEN acc ELSE Append(acc, t[i]))
    IN go(1, s)

----------------------------------------------------------------------------
(* Value trees *)

EmptyTree == [p \in {} |-> 0]

\* The tree t with leaf path p set to value v: an object on the way is
\* descended into, a scalar on the way makes the write a reported conflict
\* that is skipped, and whatever was at p is replaced.
AddToValueTree(t, p, v) ==
    IF \E q \in DOMAIN t : IsPrefix(q, p) /\ q # p
    THEN t
    ELSE LET keep == {q \in DOMAIN t : ~IsPrefix(p, q)}
         IN [q \in keep \cup {p} |-> IF q = p THEN v ELSE t[q]]

\* The sub-tree of t at path p: no leaf when p is undefined in t, the single
\* leaf <<>> when p is a scalar.
SubTree(t, p) ==
    LET under == {q \in DOMAIN t : IsPrefix(p, q)}
        rest(q) == SubSeq(q, Len(p) + 1, Len(q))
    IN [r \in {rest(q) : q \in under} |-> t[p \o r]]

\* Deep merge of tree o over tree t: where both hold an object the objects
\* are merged, otherwise o's value replaces t's.
MergeContents(t, o) ==
    LET keep == {q \in DOMAIN t : \A p \in DOMAIN o : ~Conflict(p, q)}
    IN [q \in keep \cup DOMAIN o |-> IF q \in DOMAIN o THEN o[q] ELSE t[q]]

----------------------------------------------------------------------------
(* Configuration models *)

\* Object.keys(raw): the keys of a raw object, in the order of KeyOrder.
ObjectKeys(raw) == SelectSeq(KeyOrder, LAMBDA k : k \in DOMAIN raw)

\* toValuesTree(raw): every key of raw split on its dots and written into
\* one tree, in key order.
ToValuesTree(raw) ==
    LET ks == ObjectKeys(raw)
        RECURSIVE go(_, _)
        go(i, t) ==
            IF i > Len(ks) THEN t
            ELSE go(i + 1, AddToValueTree(t, Split(ks[i]), raw[ks[i]]))
    IN go(1, EmptyTree)

\* ConfigurationModelParser.parseRaw: { contents, keys } of a raw object.
ParseRaw(raw) == [contents |-> ToValuesTree(raw), keys |-> ObjectKeys(raw)]

EmptyRaw == [k \in {} |-> 0]

\* new ConfigurationModel()
EmptyModel == ParseRaw(EmptyRaw)

\* getConfigurationValue(contents, key)
GetConfigurationValue(contents, key) == SubTree(contents, Split(key))

Undefined == EmptyTree

\* The scalar v as a value read from a tree.
Scalar(v) == [p \in {<<>>} |-> v]

\* The structural diff of two models: { added, removed, updated }.
CompareModels(from, to) ==
    [added   |-> SelectSeq(to.keys, LAMBDA k : k \notin Range(from.keys)),
     removed |-> SelectSeq(from.keys, LAMBDA k : k \notin Range(to.keys)),
     updated |-> SelectSeq(from.keys, LAMBDA k :
                     /\ k \in Range(to.keys)
                     /\ GetConfigurationValue(from.contents, k)
                            # GetConfigurationValue(to.contents, k))]

----------------------------------------------------------------------------
(* Resources and the workspace topology *)

\* A resource is a URI, modelled as its path segments; NoResource is the
\* absent resource of a call made without one.
NoResource == <<>>

R1 == <<"r1">>
R2 == <<"r2">>
F1 == <<"r1", "f">>

FolderUris == {R1, R2}

Resources == {R1, R2, F1}

AnyResource == Resources \cup {NoResource}

\* Workspace.getFolder(resource): the workspace folder that contains the
\* resource, NoResource when there is none.
GetFolder(ws, resource) ==
    LET owners == {i \in 1..Len(ws) : IsPrefix(ws[i], resource)}
    IN IF resource = NoResource \/ owners = {} THEN NoResource
       ELSE ws[CHOOSE i \in owners : \A j \in owners : Len(ws[j]) <= Len(ws[i])]

----------------------------------------------------------------------------
(* The Configuration aggregate *)

\* The aggregate as a value: what `this` and `other` are in compare(other).
This ==
    [defaults |-> defaults,
     user |-> user,
     workspaceConfiguration |-> workspaceConfiguration,
     folders |-> folders,
     memoryConfiguration |-> memoryConfiguration,
     memoryConfigurationByResource |-> memoryConfigurationByResource,
     workspace |-> workspace]

\* The layers that apply to a resource, lowest precedence first.
LayersFor(c, resource) ==
    LET f == GetFolder(c.workspace, resource)
    IN <<c.defaults, c.user, c.workspaceConfiguration>>
       \o (IF f # NoResource /\ f \in DOMAIN c.folders THEN <<c.folders[f]>> ELSE <<>>)
       \o <<c.memoryConfiguration>>
       \o (IF resource # NoResource /\ resource \in DOMAIN c.memoryConfigurationByResource
           THEN <<c.memoryConfigurationByResource[resource]>> ELSE <<>>)

\* The consolidated contents of a sequence of layers: each layer merged over
\* the ones before it.
Consolidate(layers) ==
    LET RECURSIVE go(_, _)
        go(i, t) ==
            IF i > Len(layers) THEN t
            ELSE go(i + 1, MergeContents(t, layers[i].contents))
    IN go(1, EmptyTree)

\* Configuration.getValue(key, { resource }) on aggregate c.
GetValueOf(c, key, resource) ==
    GetConfigurationValue(Consolidate(LayersFor(c, resource)), key)

\* getValue that does not hand the workspace to the base class.
GetValueWithoutWorkspace(key, resource) ==
    GetValueOf([This EXCEPT !.workspace = <<>>], key, resource)

\* Configuration.getValue(key, { resource })
GetValue(key, resource) == GetValueOf(This, key, resource)

\* Configuration.allKeys() on aggregate c: every key a layer defines, once.
AllKeysOf(c) ==
    LET RECURSIVE folderKeys(_, _)
        folderKeys(i, acc) ==
            IF i > Len(c.workspace) THEN acc
            ELSE folderKeys(i + 1,
                     IF c.workspace[i] \in DOMAIN c.folders
                     THEN AddKeys(acc, c.folders[c.workspace[i]].keys) ELSE acc)
        byResource == SelectSeq(<<R1, R2, F1>>,
                          LAMBDA r : r \in DOMAIN c.memoryConfigurationByResource)
        RECURSIVE memoryKeys(_, _)
        memoryKeys(i, acc) ==
            IF i > Len(byResource) THEN acc
            ELSE memoryKeys(i + 1,
                     AddKeys(acc, c.memoryConfigurationByResource[byResource[i]].keys))
    IN memoryKeys(1,
           AddKeys(folderKeys(1,
                       AddKeys(AddKeys(AddKeys(<<>>, c.defaults.keys), c.user.keys),
                               c.workspaceConfiguration.keys)),
                   c.memoryConfiguration.keys))

AllKeys == AllKeysOf(This)

----------------------------------------------------------------------------
(* Inputs *)

\* The raw layers the models of the updatable layers are parsed from.
InputRaws ==
    {EmptyRaw, (KAB :> 1) @@ (KB :> 2)} \cup {KA :> v : v \in Values}

InputModels == {ParseRaw(raw) : raw \in InputRaws}

\* The raw layers the models of the folder layers are parsed from.
FolderRaws ==
    {KA :> 1,
     (KA :> 2) @@ (KB :> 2),
     KAB :> 1}

FolderModels == {ParseRaw(raw) : raw \in FolderRaws}

\* The models the defaults layer is constructed with.
DefaultModels == {EmptyModel, ParseRaw((KA :> 2) @@ (KB :> 1))}

\* The models the global memory layer is constructed with.
MemoryModels == {EmptyModel, ParseRaw(KB :> 1)}

\* The workspace topologies: R1 is the root folder of the first and outside
\* the second.
Topologies == {<<R1, R2>>, <<R2>>}

NoFolders == [r \in {} |-> EmptyModel]

\* Reverse(s)
Reverse(s) == [i \in 1..Len(s) |-> s[Len(s) + 1 - i]]

\* The model of a raw layer that lists the keys of m's raw layer in the
\* opposite order, for a raw layer without conflicting keys.
ReverseKeys(m) == [contents |-> m.contents, keys |-> Reverse(m.keys)]

\* Models of raw layers that list keys in either order: {"a.b": 1, "b": 2}
\* and {"b": 2, "a.b": 1} among them.
ListedModels ==
    {EmptyModel,
     ParseRaw(KB :> 1),
     ParseRaw((KAB :> 1) @@ (KB :> 2)),
     ReverseKeys(ParseRaw((KAB :> 1) @@ (KB :> 2)))}

----------------------------------------------------------------------------
(* Change events returned by the aggregate *)

\* new ConfigurationChangeEvent().change(keys, resource): the event's
\* affectedKeys are the distinct keys, scoped to the resource.
ChangeEvent(keys, resource) == [keys |-> AddKeys(<<>>, keys), resource |-> resource]

\* new ConfigurationChangeEvent()
EmptyEvent == ChangeEvent(<<>>, NoResource)

\* What the last call on the aggregate was and how it ended: `op` is the
\* method, `branch` the path taken through it, `resource` and `arg` its
\* arguments, `changed` the structural diff before pruning, `event` the
\* returned event, `threw` whether the call raised instead of returning.
Returned(op, branch, resource, arg, changed, event) ==
    [op |-> op, branch |-> branch, resource |-> resource, arg |-> arg,
     changed |-> changed, event |-> event, threw |-> FALSE]

Threw(op, branch, resource, arg) ==
    [op |-> op, branch |-> branch, resource |-> resource, arg |-> arg,
     changed |-> <<>>, event |-> EmptyEvent, threw |-> TRUE]

NoCall == Returned("none", "none", NoResource, EmptyModel, <<>>, EmptyEvent)

----------------------------------------------------------------------------
(* Layer replacement *)

\* A filter that prunes nothing.
KeepAllChanged(changedKeys, oldValues, c, resource) == changedKeys

\* changedKeys.filter((key, index) => !equals(oldValues[index], this.getValue(key, { resource })))
\* evaluated on the aggregate c the layer has been replaced in.
PruneUnchanged(changedKeys, oldValues, c, resource) ==
    LET RECURSIVE go(_, _)
        go(i, acc) ==
            IF i > Len(changedKeys) THEN acc
            ELSE go(i + 1,
                     IF oldValues[i] # GetValueOf(c, changedKeys[i], resource)
                     THEN Append(acc, changedKeys[i]) ELSE acc)
    IN go(1, <<>>)

\* A diff that leaves out the removed keys.
ChangedKeysWithoutRemoved(from, to) ==
    LET d == CompareModels(from, to)
    IN d.added \o d.updated

\* [...added, ...updated, ...removed]
ChangedKeys(from, to) ==
    LET d == CompareModels(from, to)
    IN d.added \o d.updated \o d.removed

\* changedKeys.map(key => this.getValue(key, { resource }))
OldValues(changedKeys, c, resource) ==
    [i \in 1..Len(changedKeys) |-> GetValueOf(c, changedKeys[i], resource)]

CompareAndUpdateUserConfiguration(m) ==
    LET changedKeys == ChangedKeys(user, m)
        oldValues == OldValues(changedKeys, This, NoResource)
        after == [This EXCEPT !.user = m]
    IN /\ user' = IF Len(changedKeys) > 0 THEN m ELSE user
       /\ call' = Returned("compareAndUpdateUserConfiguration", "update", NoResource, m, changedKeys,
                      ChangeEvent(IF Len(changedKeys) > 0
                                  THEN PruneUnchanged(changedKeys, oldValues, after, NoResource)
                                  ELSE changedKeys, NoResource))
       /\ UNCHANGED <<defaults, workspaceConfiguration, folders, memoryConfiguration,
                      memoryConfigurationByResource, workspace>>

CompareAndUpdateWorkspaceConfiguration(m) ==
    LET changedKeys == ChangedKeys(workspaceConfiguration, m)
        oldValues == OldValues(changedKeys, This, NoResource)
        after == [This EXCEPT !.workspaceConfiguration = m]
    IN /\ workspaceConfiguration' = IF Len(changedKeys) > 0 THEN m ELSE workspaceConfiguration
       /\ call' = Returned("compareAndUpdateWorkspaceConfiguration", "update", NoResource, m, changedKeys,
                      ChangeEvent(IF Len(changedKeys) > 0
                                  THEN PruneUnchanged(changedKeys, oldValues, after, NoResource)
                                  ELSE changedKeys, NoResource))
       /\ UNCHANGED <<defaults, user, folders, memoryConfiguration,
                      memoryConfigurationByResource, workspace>>

\* StrictResourceMap.set(resource, model)
MapSet(map, resource, m) ==
    [r \in DOMAIN map \cup {resource} |-> IF r = resource THEN m ELSE map[r]]

\* StrictResourceMap.delete(resource)
MapDelete(map, resource) == [r \in DOMAIN map \ {resource} |-> map[r]]

\* The branch of compareAndUpdateFolderConfiguration taken when the folders
\* map has a model for the resource.
UpdateExistingFolder(resource, m) ==
    LET changedKeys == ChangedKeys(folders[resource], m)
        oldValues == OldValues(changedKeys, This, resource)
        after == [This EXCEPT !.folders = MapSet(folders, resource, m)]
    IN /\ folders' = IF Len(changedKeys) > 0 THEN after.folders ELSE folders
       /\ call' = Returned("compareAndUpdateFolderConfiguration", "update", resource, m, changedKeys,
                      ChangeEvent(IF Len(changedKeys) > 0
                                  THEN PruneUnchanged(changedKeys, oldValues, after, resource)
                                  ELSE changedKeys, resource))

\* An insert that reports only the keys whose effective value changed.
InsertFolderPruned(resource, m) ==
    /\ folders' = MapSet(folders, resource, m)
    /\ call' = Returned("compareAndUpdateFolderConfiguration", "insert", resource, m, m.keys,
                   ChangeEvent(PruneUnchanged(m.keys, OldValues(m.keys, This, resource),
                                   [This EXCEPT !.folders = MapSet(folders, resource, m)],
                                   resource),
                               resource))

\* The branch taken when the folders map has no model for the resource.
InsertFolder(resource, m) ==
    /\ folders' = MapSet(folders, resource, m)
    /\ call' = Returned("compareAndUpdateFolderConfiguration", "insert", resource, m, m.keys,
                   ChangeEvent(m.keys, resource))

\* A folder update that rebuilds the folders map with the one layer.
UpdateFolderDropsOthers(resource, m) ==
    /\ folders' = (resource :> m)
    /\ call' = Returned("compareAndUpdateFolderConfiguration", "insert", resource, m, m.keys,
                   ChangeEvent(m.keys, resource))
    /\ UNCHANGED <<defaults, user, workspaceConfiguration, memoryConfiguration,
                   memoryConfigurationByResource, workspace>>

CompareAndUpdateFolderConfiguration(resource, m) ==
    /\ IF resource \in DOMAIN folders
       THEN UpdateExistingFolder(resource, m)
       ELSE InsertFolder(resource, m)
    /\ UNCHANGED <<defaults, user, workspaceConfiguration, memoryConfiguration,
                   memoryConfigurationByResource, workspace>>

\* this._workspace && this._workspace.folders.length > 0
\*     && this._workspace.folders[0].uri.toString() === folder.toString()
IsRootFolder(folder) == Len(workspace) > 0 /\ workspace[1] = folder

\* A deletion without the root folder exception.
DeleteAlsoRootFolder(folder) ==
    /\ IF folder \notin DOMAIN folders
       THEN /\ call' = Threw("compareAndDeleteFolderConfiguration", "missing", folder, EmptyModel)
            /\ UNCHANGED folders
       ELSE /\ call' = Returned("compareAndDeleteFolderConfiguration", "delete", folder, EmptyModel,
                           folders[folder].keys, ChangeEvent(folders[folder].keys, folder))
            /\ folders' = MapDelete(folders, folder)
    /\ UNCHANGED <<defaults, user, workspaceConfiguration, memoryConfiguration,
                   memoryConfigurationByResource, workspace>>

\* A deletion that reports the keys but leaves the layer in the map.
DeleteKeepsLayer(folder) ==
    /\ IF IsRootFolder(folder)
       THEN call' = Returned("compareAndDeleteFolderConfiguration", "root", folder, EmptyModel,
                        <<>>, EmptyEvent)
       ELSE IF folder \notin DOMAIN folders
       THEN call' = Threw("compareAndDeleteFolderConfiguration", "missing", folder, EmptyModel)
       ELSE call' = Returned("compareAndDeleteFolderConfiguration", "delete", folder, EmptyModel,
                        folders[folder].keys, ChangeEvent(folders[folder].keys, folder))
    /\ UNCHANGED <<defaults, user, workspaceConfiguration, folders, memoryConfiguration,
                   memoryConfigurationByResource, workspace>>

\* this.folders.get(folder).keys raises a TypeError when the map has no
\* model for the folder: the call ends there, before the map is touched.
CompareAndDeleteFolderConfiguration(folder) ==
    /\ IF IsRootFolder(folder)
       THEN /\ call' = Returned("compareAndDeleteFolderConfiguration", "root", folder, EmptyModel,
                                <<>>, EmptyEvent)
            /\ UNCHANGED folders
       ELSE IF folder \notin DOMAIN folders
       THEN /\ call' = Threw("compareAndDeleteFolderConfiguration", "missing", folder, EmptyModel)
            /\ UNCHANGED folders
       ELSE /\ call' = Returned("compareAndDeleteFolderConfiguration", "delete", folder, EmptyModel,
                           folders[folder].keys, ChangeEvent(folders[folder].keys, folder))
            /\ folders' = MapDelete(folders, folder)
    /\ UNCHANGED <<defaults, user, workspaceConfiguration, memoryConfiguration,
                   memoryConfigurationByResource, workspace>>

----------------------------------------------------------------------------
(* Comparing two aggregates *)

\* Configuration.compare(other) on aggregate c.
CompareOf(c, other) ==
    LET from == AllKeysOf(other)
        to == AllKeysOf(c)
        added == SelectSeq(to, LAMBDA key : key \notin Range(from))
        removed == SelectSeq(from, LAMBDA key : key \notin Range(to))
        updated == SelectSeq(from, LAMBDA key :
                       GetValueOf(c, key, NoResource) # GetValueOf(other, key, NoResource))
    IN added \o removed \o updated

\* No compare call yet.
NotCompared == [called |-> FALSE, other |-> <<>>, result |-> <<>>]

Compare(other) ==
    /\ compared' = [called |-> TRUE, other |-> other, result |-> CompareOf(This, other)]
    /\ UNCHANGED <<cfgVars, call>>

----------------------------------------------------------------------------
(* AllKeysConfigurationChangeEvent *)

\* AbstractConfigurationChangeEvent.doesConfigurationContains(model, config):
\* config, one of its ancestors or one of its descendants on the tree of
\* dotted segments is a changed key of the model.
DoesConfigurationContain(model, config) ==
    \E k \in Range(model.keys) : Conflict(Split(k), Split(config))

\* updateKeys(new ConfigurationModel(), keys): the synthetic model that holds
\* the merged values of the keys.
UpdateKeys(keys, c) ==
    LET RECURSIVE go(_, _)
        go(i, t) ==
            IF i > Len(keys) THEN t
            ELSE go(i + 1,
                     LET v == GetValueOf(c, keys[i], NoResource)
                         p == Split(keys[i])
                     IN MergeContents(t, [q \in {p \o r : r \in DOMAIN v} |->
                                              v[SubSeq(q, Len(p) + 1, Len(q))]]))
    IN [contents |-> go(1, EmptyTree), keys |-> keys]

\* get affectedKeys(): this._configuration.allKeys()
AffectedKeys == AllKeys

NoEvent == [constructed |-> FALSE, cached |-> FALSE, changedConfiguration |-> EmptyModel]

\* The value the changedConfiguration getter returns: the cached model, or
\* the model built from the affected keys when none is cached yet.
ChangedConfiguration ==
    IF allKeysEvent.cached THEN allKeysEvent.changedConfiguration
    ELSE UpdateKeys(AffectedKeys, This)

\* The event after the changedConfiguration getter has run.
AfterChangedConfiguration ==
    [allKeysEvent EXCEPT !.cached = TRUE, !.changedConfiguration = ChangedConfiguration]

NotAsked == [asked |-> FALSE, config |-> <<>>, result |-> FALSE, affectedKeys |-> <<>>]

\* new AllKeysConfigurationChangeEvent(configuration, source, sourceConfig)
ConstructEvent ==
    /\ ~allKeysEvent.constructed
    /\ allKeysEvent' = [constructed |-> TRUE, cached |-> FALSE,
                        changedConfiguration |-> EmptyModel]
    /\ UNCHANGED <<cfgVars, call, compared, affects, parserVars, workspaceVars>>

\* event.changedConfiguration
GetChangedConfiguration ==
    /\ allKeysEvent.constructed
    /\ allKeysEvent' = AfterChangedConfiguration
    /\ UNCHANGED <<cfgVars, call, compared, affects, parserVars, workspaceVars>>

\* event.affectsConfiguration(config): the query, its answer and the
\* event's affectedKeys when it was answered.
AffectsConfiguration(config) ==
    /\ allKeysEvent.constructed
    /\ allKeysEvent' = AfterChangedConfiguration
    /\ affects' = [asked |-> TRUE, config |-> config,
                   result |-> DoesConfigurationContain(ChangedConfiguration, config),
                   affectedKeys |-> AffectedKeys]
    /\ UNCHANGED <<cfgVars, call, compared, parserVars, workspaceVars>>

\* The queries put to the event: "a", "a.b", "b", "ab", "a.bb", "a.b.a", "b.a".
Queries ==
    {KA, KAB, KB, <<"a", "b">>, <<"a", ".", "b", "b">>, <<"a", ".", "b", ".", "a">>,
     <<"b", ".", "a">>}

----------------------------------------------------------------------------
(* FolderSettingsModelParser *)

Scopes == {"WINDOW", "RESOURCE"}

Unset == "unset"

\* The schema registries: a.b and b may each be unregistered, or registered
\* with a scope and an executable flag.
Schemas == [scope : Scopes, isExecutable : BOOLEAN]

Registries ==
    UNION {[S -> Schemas] : S \in SUBSET {KAB, KB}}

\* getScope(key, configurationProperties)
GetScope(key, properties) ==
    IF key \in DOMAIN properties THEN properties[key].scope ELSE "WINDOW"

\* The check without the executable flag: every key passes.
IsNotExecutableAlways(key, properties) == TRUE

\* isNotExecutable(key, configurationProperties)
IsNotExecutable(key, properties) ==
    IF key \notin DOMAIN properties THEN TRUE
    ELSE ~properties[key].isExecutable

\* The keys of rawSettings that parseWorkspaceSettings lets through.
PermittedKeys(rawSettings, properties, scope) ==
    {key \in DOMAIN rawSettings :
        /\ IsNotExecutable(key, properties)
        /\ (scope = Unset \/ GetScope(key, properties) = scope)}

\* unsupportedKeys of parseWorkspaceSettings, in key order.
UnsupportedKeys(rawSettings, properties) ==
    SelectSeq(ObjectKeys(rawSettings), LAMBDA key : ~IsNotExecutable(key, properties))

\* parseWorkspaceSettings(rawSettings): the WorkspaceSettingsModel.
ParseWorkspaceSettings(rawSettings, properties, scope) ==
    LET permitted == PermittedKeys(rawSettings, properties, scope)
        rawWorkspaceSettings == [key \in permitted |-> rawSettings[key]]
        configurationModel == ParseRaw(rawWorkspaceSettings)
    IN [contents |-> configurationModel.contents,
        keys |-> configurationModel.keys,
        unsupportedKeys |-> UnsupportedKeys(rawSettings, properties)]

\* new WorkspaceSettingsModel({}, [], [], [])
EmptySettingsModel == [contents |-> EmptyTree, keys |-> <<>>, unsupportedKeys |-> <<>>]

\* The raw settings objects handed to the parser; the last one holds the
\* conflicting keys a and a.b.
ParserRaws ==
    {EmptyRaw,
     KAB :> 1,
     (KAB :> 1) @@ (KB :> 2),
     (KA :> 1) @@ (KB :> 1),
     (KA :> 1) @@ (KAB :> 2) @@ (KB :> 1)} \cup {KB :> v : v \in Values}

\* parse(content), content an already parsed object
Parse(content) ==
    /\ parserRaw' = content
    /\ folderSettingsModel' =
           ParseWorkspaceSettings(content, configurationProperties, configurationScope)
    /\ parserCall' = "parse"
    /\ modelBefore' = folderSettingsModel
    /\ UNCHANGED <<configurationProperties, configurationScope>>

\* A reprocess that leaves the model as the last parse made it.
ReprocessKeepsModel ==
    /\ parserRaw' = parserRaw
    /\ folderSettingsModel' = folderSettingsModel
    /\ parserCall' = "reprocess"
    /\ modelBefore' = folderSettingsModel
    /\ UNCHANGED <<configurationProperties, configurationScope>>

\* reprocess(): parse(this._raw)
Reprocess ==
    /\ parserRaw' = parserRaw
    /\ folderSettingsModel' =
           ParseWorkspaceSettings(parserRaw, configurationProperties, configurationScope)
    /\ parserCall' = "reprocess"
    /\ modelBefore' = folderSettingsModel
    /\ UNCHANGED <<configurationProperties, configurationScope>>

\* The registry changes: an extension registers or unregisters settings.
RegistryChange(properties) ==
    /\ properties # configurationProperties
    /\ configurationProperties' = properties
    /\ parserCall' = "registry"
    /\ UNCHANGED <<configurationScope, parserRaw, folderSettingsModel, modelBefore>>

----------------------------------------------------------------------------
(* WorkspaceConfigurationModelParser *)

\* The 'folders' arrays of the raw workspace layers: stored folder
\* descriptors, here their paths.
StoredFolders == {<<>>, <<"p1">>, <<"p2", "p1">>}

\* The 'settings' blocks of the raw workspace layers.
WorkspaceSettings == {KB :> 1, (KA :> 1) @@ (KB :> 2)}

\* The raw workspace layers: objects with or without a 'folders' and a
\* 'settings' entry.
WorkspaceRaws ==
    {[e \in {} |-> <<>>]}
    \cup {"folders" :> fs : fs \in StoredFolders}
    \cup {"settings" :> st : st \in WorkspaceSettings}
    \cup {("folders" :> fs) @@ ("settings" :> st) :
              fs \in StoredFolders, st \in WorkspaceSettings}

\* raw['folders'] || []
RawFolders(raw) == IF "folders" \in DOMAIN raw THEN raw["folders"] ELSE <<>>

\* raw['settings']: an absent block has no key to iterate over.
RawSettings(raw) == IF "settings" \in DOMAIN raw THEN raw["settings"] ELSE EmptyRaw

\* A workspace parser as constructed: _folders = [].
NoWorkspaceParse == [folders |-> <<>>, raw |-> [e \in {} |-> <<>>], before |-> <<>>]

\* A parseRaw that keeps the folders it holds when the raw layer has none.
WorkspaceParseRawKeepsFolders(raw) ==
    /\ workspaceParser' =
           [folders |-> IF "folders" \in DOMAIN raw THEN raw["folders"]
                        ELSE workspaceParser.folders,
            raw |-> raw,
            before |-> workspaceParser.folders]
    /\ Parse(RawSettings(raw))

\* WorkspaceConfigurationModelParser.parseRaw(raw): the folders are taken
\* from the raw layer and its settings block is handed to the nested folder
\* settings parser.  `raw` and `before` record the layer parsed and the
\* folders held when the parse began.
WorkspaceParseRaw(raw) ==
    /\ workspaceParser' =
           [folders |-> RawFolders(raw), raw |-> raw, before |-> workspaceParser.folders]
    /\ Parse(RawSettings(raw))

\* reprocessWorkspaceSettings(): this._workspaceSettingsModelParser.reprocess()
ReprocessWorkspaceSettings == Reprocess

\* The registries a workspace parser lives under: b unregistered, or
\* registered as executable or not.
WorkspaceRegistries ==
    {EmptyRaw} \cup {KB :> [scope |-> "WINDOW", isExecutable |-> x] : x \in BOOLEAN}

----------------------------------------------------------------------------
(* StandaloneConfigurationModelParser *)

Tasks == <<"t", "a", "s", "k", "s">>

Launch == <<"l", "a", "u", "n", "c", "h">>

\* The scopes standalone parsers are constructed with.
StandaloneScopes == {Tasks, Launch, <<"a">>, <<"x">>}

\* The raw layers handed to a standalone parser: every assignment of values
\* to a set of keys, the conflicting keys a and a.b together included.
StandaloneRaws == UNION {[S -> Values] : S \in SUBSET Keys}

\* An object without entries, as a value in a tree.
EmptyObject == 0

\* `${this.scope}.${key}`
ScopedKey(scope, key) == scope \o <<".">> \o key

\* StandaloneConfigurationModelParser.parseRaw(raw): { contents, keys, overrides }
StandaloneParseRaw(scope, raw) ==
    LET contents == ToValuesTree(raw)
        scopedContents ==
            IF DOMAIN contents = {} THEN <<scope>> :> EmptyObject
            ELSE [p \in {<<scope>> \o q : q \in DOMAIN contents} |-> contents[Tail(p)]]
        rawKeys == ObjectKeys(raw)
    IN [contents |-> scopedContents,
        keys |-> [i \in 1..Len(rawKeys) |-> ScopedKey(scope, rawKeys[i])],
        overrides |-> <<>>]

NotParsed == [called |-> FALSE, scope |-> <<>>, raw |-> EmptyRaw, model |-> <<>>]

----------------------------------------------------------------------------
(* WorkspaceConfigurationChangeEvent *)

\* ConfigurationChangeEvent.affectsConfiguration(config, resource) on an
\* event made by change(keys, resource): the keys of an event without a
\* resource are searched for every query, the keys of an event scoped to a
\* resource for a query without a resource or with that very resource.
EventAffectsConfiguration(event, config, resource) ==
    /\ DoesConfigurationContain([contents |-> EmptyTree, keys |-> event.keys], config)
    /\ \/ event.resource = NoResource
       \/ resource = NoResource
       \/ resource = event.resource

\* The wrapper without the second look-up: the wrapped event's answer.
AffectsWithoutWidening(event, ws, config, resource) ==
    EventAffectsConfiguration(event, config, resource)

\* WorkspaceConfigurationChangeEvent.affectsConfiguration(config, resource),
\* the wrapper built over `event` and workspace `ws`.
WorkspaceAffectsConfiguration(event, ws, config, resource) ==
    IF EventAffectsConfiguration(event, config, resource) THEN TRUE
    ELSE IF resource # NoResource
    THEN LET workspaceFolder == GetFolder(ws, resource)
         IN IF workspaceFolder # NoResource
            THEN EventAffectsConfiguration(event, config, workspaceFolder)
            ELSE FALSE
    ELSE FALSE

NotQueried ==
    [asked |-> FALSE, event |-> EmptyEvent, config |-> <<>>, resource |-> NoResource,
     result |-> FALSE]

\* The queries put to the wrapper: "a", "a.b", "a.bb".
WorkspaceQueries == {KA, KAB, <<"a", ".", "b", "b">>}

----------------------------------------------------------------------------
(* Initial states *)

InitParserIdle ==
    /\ configurationProperties = EmptyRaw
    /\ configurationScope = Unset
    /\ parserRaw = EmptyRaw
    /\ folderSettingsModel = EmptySettingsModel
    /\ parserCall = "none"
    /\ modelBefore = EmptySettingsModel

InitEventIdle ==
    /\ allKeysEvent = NoEvent
    /\ affects = NotAsked

InitWorkspaceIdle ==
    /\ workspaceParser = NoWorkspaceParse
    /\ standalone = NotParsed
    /\ workspaceAffects = NotQueried

\* The aggregate as constructed, before any layer replacement.
Init ==
    /\ defaults \in DefaultModels
    /\ user = EmptyModel
    /\ workspaceConfiguration = EmptyModel
    /\ folders = NoFolders
    /\ memoryConfiguration \in MemoryModels
    /\ memoryConfigurationByResource = F1 :> ParseRaw(KB :> 2)
    /\ workspace \in Topologies
    /\ call = NoCall
    /\ compared = NotCompared
    /\ InitEventIdle
    /\ InitParserIdle
    /\ InitWorkspaceIdle

\* Two aggregates to compare: this one is constructed from any of the input
\* models, the folder layer from one model.
InitCompare ==
    /\ defaults \in DefaultModels
    /\ user \in InputModels
    /\ workspaceConfiguration \in InputModels
    /\ folders \in {NoFolders, R1 :> ParseRaw((KAB :> 1) @@ (KB :> 2))}
    /\ memoryConfiguration = EmptyModel
    /\ memoryConfigurationByResource = NoFolders
    /\ workspace = <<R1, R2>>
    /\ call = NoCall
    /\ compared = NotCompared
    /\ InitEventIdle
    /\ InitParserIdle
    /\ InitWorkspaceIdle

\* The aggregate an AllKeysConfigurationChangeEvent is built over.
InitEvent ==
    /\ defaults \in DefaultModels
    /\ user = EmptyModel
    /\ workspaceConfiguration = EmptyModel
    /\ folders = NoFolders
    /\ memoryConfiguration = EmptyModel
    /\ memoryConfigurationByResource = NoFolders
    /\ workspace = <<R1, R2>>
    /\ call = NoCall
    /\ compared = NotCompared
    /\ InitEventIdle
    /\ InitParserIdle
    /\ InitWorkspaceIdle

\* A folder settings parser as constructed, with or without a scope filter,
\* under any registry.
InitParser ==
    /\ defaults = EmptyModel
    /\ user = EmptyModel
    /\ workspaceConfiguration = EmptyModel
    /\ folders = NoFolders
    /\ memoryConfiguration = EmptyModel
    /\ memoryConfigurationByResource = NoFolders
    /\ workspace = <<R1, R2>>
    /\ call = NoCall
    /\ compared = NotCompared
    /\ InitEventIdle
    /\ InitWorkspaceIdle
    /\ configurationProperties \in Registries
    /\ configurationScope \in Scopes \cup {Unset}
    /\ parserRaw = EmptyRaw
    /\ folderSettingsModel = EmptySettingsModel
    /\ parserCall = "none"
    /\ modelBefore = EmptySettingsModel

\* An aggregate without layers, before any call.
InitNoLayers ==
    /\ defaults = EmptyModel
    /\ user = EmptyModel
    /\ workspaceConfiguration = EmptyModel
    /\ folders = NoFolders
    /\ memoryConfiguration = EmptyModel
    /\ memoryConfigurationByResource = NoFolders
    /\ call = NoCall
    /\ compared = NotCompared
    /\ InitEventIdle

\* The aggregate whose layers are replaced by models that list the same keys
\* in different orders.
InitReplace ==
    /\ defaults \in DefaultModels
    /\ user = EmptyModel
    /\ workspaceConfiguration = EmptyModel
    /\ folders = NoFolders
    /\ memoryConfiguration = EmptyModel
    /\ memoryConfigurationByResource = NoFolders
    /\ workspace = <<R1, R2>>
    /\ call = NoCall
    /\ compared = NotCompared
    /\ InitEventIdle
    /\ InitParserIdle
    /\ InitWorkspaceIdle

\* A workspace parser as constructed: its nested folder settings parser has
\* no scope filter.
InitWorkspaceParser ==
    /\ InitNoLayers
    /\ workspace = <<R1, R2>>
    /\ InitWorkspaceIdle
    /\ configurationProperties \in WorkspaceRegistries
    /\ configurationScope = Unset
    /\ parserRaw = EmptyRaw
    /\ folderSettingsModel = EmptySettingsModel
    /\ parserCall = "none"
    /\ modelBefore = EmptySettingsModel

\* A standalone parser before its first parseRaw.
InitStandalone ==
    /\ InitNoLayers
    /\ workspace = <<R1, R2>>
    /\ InitParserIdle
    /\ InitWorkspaceIdle

\* The aggregate whose change events a WorkspaceConfigurationChangeEvent
\* wraps, in a workspace that holds r1 or does not.
InitWorkspaceEvent ==
    /\ InitNoLayers
    /\ workspace \in Topologies
    /\ InitParserIdle
    /\ InitWorkspaceIdle

----------------------------------------------------------------------------
(* Steps *)

UpdateUser ==
    /\ \E m \in InputModels : CompareAndUpdateUserConfiguration(m)
    /\ UNCHANGED <<compared, eventVars, parserVars, workspaceVars>>

UpdateWorkspace ==
    /\ \E m \in InputModels : CompareAndUpdateWorkspaceConfiguration(m)
    /\ UNCHANGED <<compared, eventVars, parserVars, workspaceVars>>

UpdateFolder ==
    /\ \E resource \in FolderUris, m \in FolderModels :
           CompareAndUpdateFolderConfiguration(resource, m)
    /\ UNCHANGED <<compared, eventVars, parserVars, workspaceVars>>

DeleteFolder ==
    /\ \E folder \in FolderUris : CompareAndDeleteFolderConfiguration(folder)
    /\ UNCHANGED <<compared, eventVars, parserVars, workspaceVars>>

\* compare(other), other differing from this aggregate in any of the
\* defaults, the user, the workspace and the folder layers.
CompareWithOther ==
    /\ \E d \in DefaultModels, u \in InputModels, w \in InputModels,
          f \in {NoFolders, R1 :> ParseRaw(KA :> 1)} :
           Compare([This EXCEPT !.defaults = d, !.user = u,
                                !.workspaceConfiguration = w, !.folders = f])
    /\ UNCHANGED <<eventVars, parserVars, workspaceVars>>

QueryEvent == \E config \in Queries : AffectsConfiguration(config)

ParseSettings ==
    /\ \E content \in ParserRaws : Parse(content)
    /\ UNCHANGED <<cfgVars, call, compared, eventVars, workspaceVars>>

ReprocessSettings ==
    /\ Reprocess
    /\ UNCHANGED <<cfgVars, call, compared, eventVars, workspaceVars>>

ChangeRegistry ==
    /\ \E properties \in Registries : RegistryChange(properties)
    /\ UNCHANGED <<cfgVars, call, compared, eventVars, workspaceVars>>

\* The layer replacements of the aggregate with models that differ in the
\* order of their keys only.
ReplaceUser ==
    /\ \E m \in ListedModels : CompareAndUpdateUserConfiguration(m)
    /\ UNCHANGED <<compared, eventVars, parserVars, workspaceVars>>

ReplaceWorkspace ==
    /\ \E m \in ListedModels : CompareAndUpdateWorkspaceConfiguration(m)
    /\ UNCHANGED <<compared, eventVars, parserVars, workspaceVars>>

ReplaceFolder ==
    /\ \E m \in ListedModels : CompareAndUpdateFolderConfiguration(R1, m)
    /\ UNCHANGED <<compared, eventVars, parserVars, workspaceVars>>

ParseWorkspace ==
    /\ \E raw \in WorkspaceRaws : WorkspaceParseRaw(raw)
    /\ UNCHANGED <<cfgVars, call, compared, eventVars, standalone, workspaceAffects>>

ReprocessWorkspace ==
    /\ ReprocessWorkspaceSettings
    /\ UNCHANGED <<cfgVars, call, compared, eventVars, workspaceVars>>

ChangeWorkspaceRegistry ==
    /\ \E properties \in WorkspaceRegistries : RegistryChange(properties)
    /\ UNCHANGED <<cfgVars, call, compared, eventVars, workspaceVars>>

\* parseRaw(raw) on a standalone parser constructed with a scope.
ParseStandalone ==
    /\ \E scope \in StandaloneScopes, raw \in StandaloneRaws :
           standalone' = [called |-> TRUE, scope |-> scope, raw |-> raw,
                          model |-> StandaloneParseRaw(scope, raw)]
    /\ UNCHANGED <<cfgVars, call, compared, eventVars, parserVars, workspaceParser,
                   workspaceAffects>>

\* The calls on the aggregate whose returned events are wrapped: a user
\* update (an event without a resource) and a folder update (an event
\* scoped to the folder).
EmitUserEvent ==
    /\ \E m \in {EmptyModel, ParseRaw(KA :> 1)} : CompareAndUpdateUserConfiguration(m)
    /\ UNCHANGED <<compared, eventVars, parserVars, workspaceVars>>

EmitFolderEvent ==
    /\ \E resource \in FolderUris, m \in {ParseRaw(KAB :> 1), ParseRaw(KB :> 1)} :
           CompareAndUpdateFolderConfiguration(resource, m)
    /\ UNCHANGED <<compared, eventVars, parserVars, workspaceVars>>

\* new WorkspaceConfigurationChangeEvent(event, workspace).affectsConfiguration(config, resource),
\* event being the one the last call on the aggregate returned.
QueryWorkspaceEvent ==
    /\ call.op # "none"
    /\ \E config \in WorkspaceQueries, resource \in AnyResource :
           workspaceAffects' =
               [asked |-> TRUE, event |-> call.event, config |-> config,
                resource |-> resource,
                result |-> WorkspaceAffectsConfiguration(call.event, workspace, config,
                               resource)]
    /\ UNCHANGED <<cfgVars, call, compared, eventVars, parserVars, workspaceParser,
                   standalone>>

----------------------------------------------------------------------------
(* Specifications *)

Next == UpdateUser \/ UpdateWorkspace \/ UpdateFolder \/ DeleteFolder

\* The aggregate under layer replacement and folder deletion.
Spec == Init /\ [][Next]_vars

NextCompare == CompareWithOther

\* compare(other) on constructed aggregates.
SpecCompare == InitCompare /\ [][NextCompare]_vars

NextEvent ==
    UpdateUser \/ UpdateWorkspace \/ ConstructEvent \/ GetChangedConfiguration \/ QueryEvent

\* An AllKeysConfigurationChangeEvent over an aggregate whose user and
\* workspace layers are replaced during the event's lifetime.
SpecEvent == InitEvent /\ [][NextEvent]_vars

NextParser == ParseSettings \/ ReprocessSettings \/ ChangeRegistry

\* A folder settings parser under parses, reprocessing and registry changes.
SpecParser == InitParser /\ [][NextParser]_vars

NextReplace == ReplaceUser \/ ReplaceWorkspace \/ ReplaceFolder

\* The aggregate under replacements by models that list their keys in
\* different orders.
SpecReplace == InitReplace /\ [][NextReplace]_vars

NextWorkspaceParser == ParseWorkspace \/ ReprocessWorkspace \/ ChangeWorkspaceRegistry

\* A workspace parser under parses, reprocessing and registry changes.
SpecWorkspaceParser == InitWorkspaceParser /\ [][NextWorkspaceParser]_vars

NextStandalone == ParseStandalone

\* A standalone parser under parseRaw calls.
SpecStandalone == InitStandalone /\ [][NextStandalone]_vars

NextWorkspaceEvent == EmitUserEvent \/ EmitFolderEvent \/ QueryWorkspaceEvent

\* A WorkspaceConfigurationChangeEvent over the events the aggregate returns.
SpecWorkspaceEvent == InitWorkspaceEvent /\ [][NextWorkspaceEvent]_vars

----------------------------------------------------------------------------
(* Properties of the aggregate *)

\* The aggregate after the step.
ThisNext ==
    [defaults |-> defaults',
     user |-> user',
     workspaceConfiguration |-> workspaceConfiguration',
     folders |-> folders',
     memoryConfiguration |-> memoryConfiguration',
     memoryConfigurationByResource |-> memoryConfigurationByResource',
     workspace |-> workspace']

\* The layers of a resource that hold a value on the path of key k.
Touching(layers, k) ==
    {i \in 1..Len(layers) :
        \E q \in DOMAIN layers[i].contents : Conflict(q, Split(k))}

\* Key k is a scalar in every layer of `layers` that touches its path, and
\* at least two layers do.
ScalarInLayers(layers, k) ==
    /\ Cardinality(Touching(layers, k)) >= 2
    /\ \A i \in Touching(layers, k) : Split(k) \in DOMAIN layers[i].contents

Highest(S) == CHOOSE i \in S : \A j \in S : j <= i

\* The layers in the order of precedence the specification gives them for a
\* resource, lowest first; a layer the resource has none of is empty.
PrecedenceOrder(r) ==
    <<defaults,
      user,
      workspaceConfiguration,
      IF GetFolder(workspace, r) \in DOMAIN folders
      THEN folders[GetFolder(workspace, r)] ELSE EmptyModel,
      memoryConfiguration,
      IF r \in DOMAIN memoryConfigurationByResource
      THEN memoryConfigurationByResource[r] ELSE EmptyModel>>

\* C1. Precedence: when two or more of the layers that apply to a resource
\* (defaults < user < workspace < folder of the owning folder < global
\* memory < per-resource memory) define key k, as a scalar, getValue(k,
\* {resource}) is the value of the highest of them, whatever the lower
\* layers hold.
C1_Precedence ==
    \A k \in Keys, r \in AnyResource :
        LET layers == PrecedenceOrder(r)
        IN ScalarInLayers(layers, k) =>
               GetValue(k, r)
                   = Scalar(layers[Highest(Touching(layers, k))].contents[Split(k)])

\* A folder layer overrides a different value that the defaults, the user
\* and the workspace layer all define.
C1_Witness ==
    \E k \in Keys, r \in Resources :
        LET layers == PrecedenceOrder(r)
            f == GetFolder(workspace, r)
        IN /\ ScalarInLayers(layers, k)
           /\ {1, 2, 3, 4} \subseteq Touching(layers, k)
           /\ f \in DOMAIN folders
           /\ Highest(Touching(layers, k)) = 4
           /\ layers[4].contents[Split(k)] # layers[3].contents[Split(k)]
           /\ GetValue(k, r) = Scalar(folders[f].contents[Split(k)])

UpdateOps ==
    {"compareAndUpdateUserConfiguration", "compareAndUpdateWorkspaceConfiguration",
     "compareAndUpdateFolderConfiguration"}

\* C2. Shadowing pruning: every key in the event returned by a user, a
\* workspace or a folder update (of a resource that had a layer) has an
\* effective value after the call that differs from the one before it.
C2_ShadowingPruning ==
    [][\A r \in AnyResource :
          (/\ call'.op \in UpdateOps
           /\ call'.resource = r
           /\ call'.op = "compareAndUpdateFolderConfiguration" => r \in DOMAIN folders)
          => \A k \in Range(call'.event.keys) : GetValueOf(ThisNext, k, r) # GetValue(k, r)]_vars

\* An update whose structural diff holds a key that a higher layer shadows
\* (pruned) and a key whose effective value changed (reported).
C2_Witness ==
    /\ call.op \in UpdateOps
    /\ call.branch = "update"
    /\ call.event.keys # <<>>
    /\ \E k \in Range(call.changed) :
           /\ k \notin Range(call.event.keys)
           /\ \E j \in 1..6 :
                  /\ j > (IF call.op = "compareAndUpdateUserConfiguration" THEN 2
                          ELSE IF call.op = "compareAndUpdateWorkspaceConfiguration" THEN 3
                          ELSE 4)
                  /\ Split(k) \in DOMAIN PrecedenceOrder(call.resource)[j].contents

\* C5. Root folder deletion is a no-op: compareAndDeleteFolderConfiguration
\* on workspace.folders[0] returns an event without keys and changes no
\* layer, so every effective value stays what it was.
C5_RootDeletionNoOp ==
    [][(/\ call'.op = "compareAndDeleteFolderConfiguration"
        /\ Len(workspace) > 0
        /\ call'.resource = workspace[1])
       => /\ ~call'.threw
          /\ call'.event.keys = <<>>
          /\ UNCHANGED cfgVars
          /\ \A k \in Keys, r \in AnyResource : GetValueOf(ThisNext, k, r) = GetValue(k, r)]_vars

\* The root folder has a settings layer when its deletion is asked for, and
\* still has it afterwards.
C5_Witness ==
    /\ call.op = "compareAndDeleteFolderConfiguration"
    /\ Len(workspace) > 0
    /\ call.resource = workspace[1]
    /\ call.resource \in DOMAIN folders
    /\ folders[call.resource].keys # <<>>
    /\ \E k \in Keys :
           GetValue(k, call.resource) # GetValueOf([This EXCEPT !.folders = NoFolders],
                                             k, call.resource)

\* C7. No exception: no call on the aggregate raises.
C7_NeverRaises == ~call.threw

\* C9. Folder insert: compareAndUpdateFolderConfiguration on a resource
\* without a layer installs the new model as that resource's layer and
\* returns an event scoped to the resource whose keys are all the keys of
\* the new model.
C9_FolderInsert ==
    [][\A r \in FolderUris :
          (/\ call'.op = "compareAndUpdateFolderConfiguration"
           /\ call'.resource = r
           /\ r \notin DOMAIN folders)
          => /\ ~call'.threw
             /\ r \in DOMAIN folders'
             /\ folders'[r] = call'.arg
             /\ call'.event.resource = r
             /\ call'.event.keys = call'.arg.keys]_vars

\* An insert that reports a key whose effective value the insert did not
\* change.
C9_Witness ==
    /\ call.op = "compareAndUpdateFolderConfiguration"
    /\ call.branch = "insert"
    /\ call.resource \in DOMAIN folders
    /\ \E k \in Range(call.event.keys) :
           GetValue(k, call.resource)
               = GetValueOf([This EXCEPT !.folders = MapDelete(folders, call.resource)],
                     k, call.resource)

\* C10. Non-root folder deletion: compareAndDeleteFolderConfiguration on a
\* folder that is not workspace.folders[0] and has a layer removes the layer
\* from the folders map, so that no effective value reflects it any more,
\* and returns an event scoped to the folder whose keys are the keys of the
\* removed model.
C10_FolderDeletion ==
    [][\A f \in FolderUris :
          (/\ call'.op = "compareAndDeleteFolderConfiguration"
           /\ call'.resource = f
           /\ ~IsRootFolder(f)
           /\ f \in DOMAIN folders)
          => /\ ~call'.threw
             /\ f \notin DOMAIN folders'
             /\ \A g \in DOMAIN folders' : g \in DOMAIN folders /\ folders'[g] = folders[g]
             /\ call'.event.resource = f
             /\ call'.event.keys = folders[f].keys
             /\ \A k \in Keys, r \in Resources :
                    GetFolder(workspace, r) = f
                    => GetValueOf(ThisNext, k, r)
                           = GetValueOf([This EXCEPT !.folders = MapDelete(folders, f)], k, r)]_vars

\* The layer of a non-root folder of the workspace, holding keys, has been
\* deleted.
C10_Witness ==
    /\ call.op = "compareAndDeleteFolderConfiguration"
    /\ call.branch = "delete"
    /\ call.event.keys # <<>>
    /\ call.resource \notin DOMAIN folders
    /\ GetFolder(workspace, call.resource) = call.resource
    /\ Len(workspace) > 1

----------------------------------------------------------------------------
(* Properties of compare, of the parser and of the change event *)

\* The keys compare(other) is to report: added, removed and updated.
AddedKeys(c, other) == Range(AllKeysOf(c)) \ Range(AllKeysOf(other))

RemovedKeys(c, other) == Range(AllKeysOf(other)) \ Range(AllKeysOf(c))

UpdatedKeys(c, other) ==
    {k \in Range(AllKeysOf(c)) \cap Range(AllKeysOf(other)) :
        GetValueOf(c, k, NoResource) # GetValueOf(other, k, NoResource)}

\* C3. Diff correctness: the list compare(other) returns holds exactly the
\* added, the removed and the updated keys, each of them once.
C3_DiffCorrectness ==
    compared.called =>
        /\ Range(compared.result)
               = AddedKeys(This, compared.other) \cup RemovedKeys(This, compared.other)
                     \cup UpdatedKeys(This, compared.other)
        /\ Len(compared.result) = Cardinality(Range(compared.result))

IsExecutable(key) ==
    key \in DOMAIN configurationProperties /\ configurationProperties[key].isExecutable

\* C4. Scope rejection: after parse(raw), every key of raw that the registry
\* marks executable is in unsupportedKeys and is neither in the model's keys
\* nor in its contents, whatever the parser's scope filter is.
C4_ScopeRejection ==
    parserCall = "parse" =>
        \A key \in DOMAIN parserRaw :
            IsExecutable(key) =>
                /\ key \in Range(folderSettingsModel.unsupportedKeys)
                /\ key \notin Range(folderSettingsModel.keys)
                /\ GetConfigurationValue(folderSettingsModel.contents, key) = Undefined

\* An executable key has been parsed by a parser whose scope filter is the
\* key's declared scope, next to a key that was let through.
C4_Witness ==
    /\ parserCall = "parse"
    /\ folderSettingsModel.keys # <<>>
    /\ \E key \in DOMAIN parserRaw :
           /\ IsExecutable(key)
           /\ configurationProperties[key].scope = configurationScope
           /\ key \in Range(folderSettingsModel.unsupportedKeys)

\* Query q is a changed key, an ancestor of one or a descendant of one, on
\* the tree of dotted segments.
OnSegmentTree(K, q) ==
    \E k \in K :
        \/ Split(k) = Split(q)
        \/ IsPrefix(Split(q), Split(k))
        \/ IsPrefix(Split(k), Split(q))

\* C6. affectsConfiguration containment: the answer to affectsConfiguration(q)
\* is true exactly when q is one of the event's changed keys, an ancestor of
\* one or a descendant of one on the tree of dotted segments.
C6_Containment ==
    affects.asked =>
        (affects.result <=> OnSegmentTree(Range(affects.affectedKeys), affects.config))

\* C8. Change-event stability: while the event exists its affectedKeys stay
\* what they were, under any layer replacement, and are the keys of the
\* cached changedConfiguration.
C8_EventStability ==
    [][allKeysEvent.constructed =>
          /\ AllKeysOf(ThisNext) = AffectedKeys
          /\ allKeysEvent'.cached =>
                 allKeysEvent'.changedConfiguration.keys = AllKeysOf(ThisNext)]_vars

----------------------------------------------------------------------------
(* Properties of the folder settings parser under a scope filter *)

\* The parser's scope filter lets the key through: there is no filter, or
\* the key's declared scope (WINDOW when the registry has no entry for it)
\* is the filter.
ScopeAdmits(key) ==
    configurationScope = Unset \/ GetScope(key, configurationProperties) = configurationScope

\* C11. Folder parser partition: after parse(raw), every key of raw is in
\* exactly one of the model's keys and its unsupportedKeys, and a key that is
\* not executable but whose declared scope is not the parser's scope filter
\* is in unsupportedKeys.
C11_Partition ==
    parserCall = "parse" =>
        \A key \in DOMAIN parserRaw :
            /\ (key \in Range(folderSettingsModel.keys))
                   # (key \in Range(folderSettingsModel.unsupportedKeys))
            /\ (~IsExecutable(key) /\ ~ScopeAdmits(key))
                   => key \in Range(folderSettingsModel.unsupportedKeys)

\* C12. Unknown keys pass through: after parse(raw), every key of raw that
\* the registry has no entry for is in the model's keys and not in its
\* unsupportedKeys, whatever the parser's scope filter is.
C12_UnknownKeysPass ==
    parserCall = "parse" =>
        \A key \in DOMAIN parserRaw :
            key \notin DOMAIN configurationProperties =>
                /\ key \in Range(folderSettingsModel.keys)
                /\ key \notin Range(folderSettingsModel.unsupportedKeys)

\* Every key of either list of the model is a key of the raw settings.
OnlyRawKeys ==
    Range(folderSettingsModel.keys) \cup Range(folderSettingsModel.unsupportedKeys)
        \subseteq DOMAIN parserRaw

\* C13 as stated. After reprocess() the model is the one parse would make
\* of the last raw settings under the registry as it is now: a key that
\* became executable is in unsupportedKeys and not in keys, a key that was
\* unsupported and is not executable any more is in keys, and no key
\* outside the raw settings is listed.
C13_ReprocessAsStated ==
    parserCall = "reprocess" =>
        /\ folderSettingsModel
               = ParseWorkspaceSettings(parserRaw, configurationProperties, configurationScope)
        /\ \A key \in DOMAIN parserRaw :
               /\ IsExecutable(key) =>
                      /\ key \in Range(folderSettingsModel.unsupportedKeys)
                      /\ key \notin Range(folderSettingsModel.keys)
               /\ (key \in Range(modelBefore.unsupportedKeys) /\ ~IsExecutable(key)) =>
                      key \in Range(folderSettingsModel.keys)
        /\ OnlyRawKeys

\* C13, amended. After reprocess() the model is the one parse would make of
\* the last raw settings under the registry as it is now: a key that became
\* executable is in unsupportedKeys and not in keys, a key that is not
\* executable any more is in keys and not in unsupportedKeys when the
\* parser's scope filter lets it through, and no key outside the raw
\* settings is listed.
C13_Reprocess ==
    parserCall = "reprocess" =>
        /\ folderSettingsModel
               = ParseWorkspaceSettings(parserRaw, configurationProperties, configurationScope)
        /\ \A key \in DOMAIN parserRaw :
               /\ IsExecutable(key) =>
                      /\ key \in Range(folderSettingsModel.unsupportedKeys)
                      /\ key \notin Range(folderSettingsModel.keys)
               /\ (~IsExecutable(key) /\ ScopeAdmits(key)) =>
                      /\ key \in Range(folderSettingsModel.keys)
                      /\ key \notin Range(folderSettingsModel.unsupportedKeys)
        /\ OnlyRawKeys

\* One reprocess after a registry change moved a key from keys to
\* unsupportedKeys and another key from unsupportedKeys back to keys.
C13_Witness ==
    /\ parserCall = "reprocess"
    /\ \E key \in DOMAIN parserRaw :
           /\ key \in Range(modelBefore.keys)
           /\ key \in Range(folderSettingsModel.unsupportedKeys)
    /\ \E key \in DOMAIN parserRaw :
           /\ key \in Range(modelBefore.unsupportedKeys)
           /\ key \in Range(folderSettingsModel.keys)

----------------------------------------------------------------------------
(* Properties of the WorkspaceConfigurationChangeEvent *)

\* The wrapped event's answer to the query the wrapper was asked, put for
\* resource r.
WrappedAnswer(r) ==
    EventAffectsConfiguration(workspaceAffects.event, workspaceAffects.config, r)

\* C14. Resource-aware widening: the wrapper's affectsConfiguration(key,
\* resource) is true exactly when the wrapped event's answer for (key,
\* resource) is true, or a resource is given, the workspace maps it to a
\* folder and the wrapped event's answer for (key, folder uri) is true.  So
\* the wrapper is never false where the wrapped event is true, and without
\* a resource, or with one outside every workspace folder, it gives the
\* wrapped event's answer.
C14_Widening ==
    workspaceAffects.asked =>
        LET r == workspaceAffects.resource
            f == GetFolder(workspace, r)
        IN /\ workspaceAffects.result
                  <=> \/ WrappedAnswer(r)
                      \/ r # NoResource /\ f # NoResource /\ WrappedAnswer(f)
           /\ WrappedAnswer(r) => workspaceAffects.result
           /\ (r = NoResource \/ f = NoResource)
                  => (workspaceAffects.result <=> WrappedAnswer(r))

\* The wrapper answered true for a resource inside a workspace folder where
\* the wrapped event, scoped to the folder's root, answers false.
C14_Witness ==
    /\ workspaceAffects.asked
    /\ workspaceAffects.result
    /\ ~WrappedAnswer(workspaceAffects.resource)
    /\ workspaceAffects.resource # NoResource
    /\ GetFolder(workspace, workspaceAffects.resource) = workspaceAffects.event.resource
    /\ workspaceAffects.resource # workspaceAffects.event.resource

----------------------------------------------------------------------------
(* Properties of layer replacement *)

\* C15. The layer is replaced by every update: after a user, a workspace or
\* a folder update has returned, the layer it was called for is the model
\* it was called with, also when the structural diff was empty and the
\* event holds no key.
C15_LayerReplaced ==
    [][/\ call'.op = "compareAndUpdateUserConfiguration" => user' = call'.arg
       /\ call'.op = "compareAndUpdateWorkspaceConfiguration"
              => workspaceConfiguration' = call'.arg
       /\ call'.op = "compareAndUpdateFolderConfiguration"
              => /\ call'.resource \in DOMAIN folders'
                 /\ folders'[call'.resource] = call'.arg]_vars

----------------------------------------------------------------------------
(* Properties of the workspace and the standalone parser *)

\* C16. The workspace parser's folders track the last parse: folders is the
\* 'folders' array of the raw layer parsed last, the empty list when that
\* layer has none, and the settings model is made of the 'settings' block
\* of the same layer by the folder policy: every key of the block is in
\* keys or, when the registry marks it executable, in unsupportedKeys, and
\* right after a parse or a reprocess the model is the policy's model under
\* the registry.
C16_FoldersTrackLastParse ==
    LET raw == workspaceParser.raw
        settings == IF "settings" \in DOMAIN raw THEN raw["settings"] ELSE EmptyRaw
    IN /\ "folders" \in DOMAIN raw => workspaceParser.folders = raw["folders"]
       /\ "folders" \notin DOMAIN raw => workspaceParser.folders = <<>>
       /\ parserRaw = settings
       /\ Range(folderSettingsModel.keys) \cup Range(folderSettingsModel.unsupportedKeys)
              = DOMAIN settings
       /\ Range(folderSettingsModel.keys) \cap Range(folderSettingsModel.unsupportedKeys)
              = {}
       /\ parserCall \in {"parse", "reprocess"} =>
              /\ folderSettingsModel
                     = ParseWorkspaceSettings(settings, configurationProperties, Unset)
              /\ \A key \in DOMAIN settings :
                     IsExecutable(key) <=> key \in Range(folderSettingsModel.unsupportedKeys)
              /\ \A key \in Range(folderSettingsModel.keys) :
                     GetConfigurationValue(folderSettingsModel.contents, key)
                         = Scalar(settings[key])

\* A raw layer without 'folders' was parsed by a parser that held folders
\* from an earlier parse, and its settings block lost a key to the policy.
C16_Witness ==
    /\ workspaceParser.before # <<>>
    /\ "folders" \notin DOMAIN workspaceParser.raw
    /\ "settings" \in DOMAIN workspaceParser.raw
    /\ workspaceParser.folders = <<>>
    /\ parserCall = "parse"
    /\ folderSettingsModel.unsupportedKeys # <<>>
    /\ folderSettingsModel.keys # <<>>

\* The top-level entries of a tree.
TopLevel(t) == {p[1] : p \in DOMAIN t}

\* C17. Standalone namespacing: parseRaw(raw) on a parser of scope s returns
\* a model whose keys are exactly s + "." + k for the keys k of raw, each
\* once, whose contents has the single top-level entry s holding the value
\* tree of raw, whose overrides are empty, and in which every listed key is
\* reached by walking contents along the key's segments.
C17_StandaloneNamespacing ==
    standalone.called =>
        LET m == standalone.model
            s == standalone.scope
            raw == standalone.raw
        IN /\ Range(m.keys) = {s \o <<".">> \o k : k \in DOMAIN raw}
           /\ Len(m.keys) = Cardinality(DOMAIN raw)
           /\ TopLevel(m.contents) = {s}
           /\ SubTree(m.contents, <<s>>)
                  = (IF DOMAIN raw = {} THEN Scalar(EmptyObject) ELSE ToValuesTree(raw))
           /\ m.overrides = <<>>
           /\ \A k \in Range(m.keys) : GetConfigurationValue(m.contents, k) # Undefined

----------------------------------------------------------------------------
(* Completeness of the returned event and frame of the calls *)

\* The model of the layer a user or workspace update replaces, before the
\* call.
ReplacedLayer(op) ==
    IF op = "compareAndUpdateUserConfiguration" THEN user ELSE workspaceConfiguration

\* C18. Change-event completeness: after a user or a workspace update, every
\* key of the old or of the new model of the replaced layer whose
\* getValue(key) differs from the one before the call is a key of the
\* returned event.
C18_Completeness ==
    [][call'.op \in {"compareAndUpdateUserConfiguration",
                     "compareAndUpdateWorkspaceConfiguration"}
       => \A k \in Range(ReplacedLayer(call'.op).keys) \cup Range(call'.arg.keys) :
              GetValueOf(ThisNext, k, NoResource) # GetValue(k, NoResource)
                  => k \in Range(call'.event.keys)]_vars

\* An update reported a key that only the old model defined, next to a key
\* of the new model, and left out a key of its diff that a higher layer
\* shadows.
C18_Witness ==
    /\ call.op \in {"compareAndUpdateUserConfiguration",
                    "compareAndUpdateWorkspaceConfiguration"}
    /\ \E k \in Range(call.event.keys) : k \notin Range(call.arg.keys)
    /\ \E k \in Range(call.event.keys) : k \in Range(call.arg.keys)
    /\ Len(call.event.keys) < Len(call.changed)

FolderOps == {"compareAndUpdateFolderConfiguration", "compareAndDeleteFolderConfiguration"}

\* C19. Frame of layer replacement: a user update changes the user layer
\* only, a workspace update the workspace layer only, a folder update or
\* deletion for resource r the folders-map entry of r only; the defaults,
\* both memory layers, the workspace and every other layer are what they
\* were before the call.
C19_Frame ==
    [][/\ call'.op = "compareAndUpdateUserConfiguration"
              => UNCHANGED <<defaults, workspaceConfiguration, folders, memoryConfiguration,
                             memoryConfigurationByResource, workspace>>
       /\ call'.op = "compareAndUpdateWorkspaceConfiguration"
              => UNCHANGED <<defaults, user, folders, memoryConfiguration,
                             memoryConfigurationByResource, workspace>>
       /\ call'.op \in FolderOps
              => /\ UNCHANGED <<defaults, user, workspaceConfiguration, memoryConfiguration,
                                memoryConfigurationByResource, workspace>>
                 /\ \A g \in Resources \ {call'.resource} :
                        /\ g \in DOMAIN folders' <=> g \in DOMAIN folders
                        /\ g \in DOMAIN folders => folders'[g] = folders[g]]_vars

\* A folder call for one resource was made on an aggregate whose user and
\* workspace layers hold keys and whose folders map holds the layer of
\* another resource.
C19_Witness ==
    /\ call.op \in FolderOps
    /\ ~call.threw
    /\ call.branch \in {"update", "insert", "delete"}
    /\ user.keys # <<>>
    /\ workspaceConfiguration.keys # <<>>
    /\ \E g \in DOMAIN folders : g # call.resource /\ folders[g].keys # <<>>

====
